---- MODULE Spec2Model ----
(***************************************************************************)
(* The TypeScript plugin of graphql-code-generator                         *)
(* (packages/plugins/typescript/typescript/src/index.ts): plugin,          *)
(* includeIntrospectionDefinitions and collectTypes as a state machine,    *)
(* and the mapper resolution documented for the resolvers plugin.          *)
(*                                                                         *)
(* A string is a sequence of atoms: a declaration (a record with its       *)
(* header tokens) or a separator character.  '' is <<>>.                   *)
(***************************************************************************)
EXTENDS Integers, Sequences, FiniteSets, TLC

VARIABLES pc, input, visitorResult, todo, usedTypes, typesToInclude, stack,
          introspectionDefinitions, result, mapperConfig, resolved

vars == <<pc, input, visitorResult, todo, usedTypes, typesToInclude, stack,
          introspectionDefinitions, result, mapperConfig, resolved>>

pluginVars == <<pc, input, visitorResult, todo, usedTypes, typesToInclude, stack,
                introspectionDefinitions, result>>

mapperVars == <<mapperConfig, resolved>>

(* ------------------------------ bounds --------------------------------- *)

\* documents.length is at most MaxDocs
MaxDocs == 2

\* number of resolver references rendered in one run of the synthesizer
MaxRefs == 2

(* --------------------------- sequence helpers -------------------------- *)

Range(s) == {s[i] : i \in 1..Len(s)}

SeqsUpTo(S, n) == UNION {[1..k -> S] : k \in 0..n}

RECURSIVE Concat(_)
Concat(ss) == IF ss = <<>> THEN <<>> ELSE Head(ss) \o Concat(Tail(ss))

RECURSIVE SelectSeqIdx(_, _)
\* the number of indices i with s[i] = x
SelectSeqIdx(s, x) == IF s = <<>> THEN 0
                      ELSE (IF Head(s) = x THEN 1 ELSE 0) + SelectSeqIdx(Tail(s), x)

NoDuplicates(s) == \A i, j \in 1..Len(s) : s[i] = s[j] => i = j

(* ------------------------------ the schema ----------------------------- *)

\* the value of getNamedType(typeInfo.getType()) for a field the schema
\* does not know
NoType == "undefined"

\* graphql's specified scalars; they are in every schema's type map
SpecifiedScalars == <<"ID", "String", "Boolean", "Int", "Float">>

\* the introspection types in the order printIntrospectionSchema prints them
IntrospectionTypes == <<"__Schema", "__Type", "__TypeKind", "__Field", "__InputValue",
                        "__EnumValue", "__Directive", "__DirectiveLocation">>

IntrospectionKind(t) ==
  IF t \in {"__TypeKind", "__DirectiveLocation"} THEN "Enum" ELSE "Object"

\* the named type of each field of an introspection type, in field order
IntrospectionFields(t) ==
  CASE t = "__Schema" ->
         <<"__Type", "__Type", "__Type", "__Type", "__Directive">>
    [] t = "__Type" ->
         <<"__TypeKind", "String", "String", "__Field", "__Type", "__Type",
           "__EnumValue", "__InputValue", "__Type">>
    [] t = "__Field" ->
         <<"String", "String", "__InputValue", "__Type", "Boolean", "String">>
    [] t = "__InputValue" -> <<"String", "String", "__Type", "String">>
    [] t = "__EnumValue" -> <<"String", "String", "Boolean", "String">>
    [] t = "__Directive" ->
         <<"String", "String", "__DirectiveLocation", "__InputValue">>
    [] OTHER -> <<>>

\* A schema is the ordered list of the types its owner defined; each is
\* [name, kind, fields], fields being the named types of its fields.
TypeDef(n, k, f) == [name |-> n, kind |-> k, fields |-> f]

SchemaBlog ==
  << TypeDef("Query", "Object", <<"User", "SearchResult", "Role">>),
     TypeDef("User", "Object", <<"String", "Role", "Date", "User">>),
     TypeDef("Role", "Enum", <<>>),
     TypeDef("Color", "Enum", <<>>),
     TypeDef("Date", "Scalar", <<>>),
     TypeDef("Node", "Interface", <<"ID">>),
     TypeDef("SearchResult", "Union", <<>>),
     TypeDef("UserInput", "InputObject", <<"String", "Color">>) >>

SchemaPing ==
  << TypeDef("Query", "Object", <<"Boolean", "Level">>),
     TypeDef("Level", "Enum", <<>>) >>

SchemaBare ==
  << TypeDef("Query", "Object", <<"String">>) >>

Schemas == {SchemaBlog, SchemaPing, SchemaBare}

DefinedNames(schema) == {schema[i].name : i \in 1..Len(schema)}

DefinedType(schema, t) == CHOOSE d \in Range(schema) : d.name = t

\* schema.getTypeMap(): the defined types, the specified scalars and the
\* introspection types
TypeMap(schema) ==
  DefinedNames(schema) \cup Range(SpecifiedScalars) \cup Range(IntrospectionTypes)

KindOf(schema, t) ==
  IF t \in Range(IntrospectionTypes) THEN IntrospectionKind(t)
  ELSE IF t \in DefinedNames(schema) THEN DefinedType(schema, t).kind
  ELSE IF t \in Range(SpecifiedScalars) THEN "Scalar"
  ELSE "None"

\* Object.keys(type.getFields()).map(key => getNamedType(fields[key].type))
FieldTypes(schema, t) ==
  IF t \in Range(IntrospectionTypes) THEN IntrospectionFields(t)
  ELSE IF t \in DefinedNames(schema) THEN DefinedType(schema, t).fields
  ELSE <<>>

isIntrospectionType(t) == t \in Range(IntrospectionTypes)

isObjectType(schema, t) == KindOf(schema, t) = "Object"

(* ------------------------------ strings -------------------------------- *)

Sep(ch) == [kind |-> "Sep", name |-> ch, header |-> <<>>, members |-> <<>>]

Decl(k, n, h, m) == [kind |-> k, name |-> n, header |-> h, members |-> m]

RECURSIVE Join(_, _)
\* Array.prototype.join: the strings of list with sep between every two
Join(list, sep) ==
  IF list = <<>> THEN <<>>
  ELSE IF Len(list) = 1 THEN Head(list)
  ELSE Head(list) \o <<Sep(sep)>> \o Join(Tail(list), sep)

\* String(array), what join makes of an element that is itself an array
ArrayToString(list) == Join(list, ",")

\* the words of a string, separators left out
Words(str) == Concat([i \in 1..Len(str) |-> str[i].header])

\* String.prototype.includes on the words of a string
StringIncludes(str, words) ==
  LET w == Words(str)
  IN \E i \in 0..(Len(w) - Len(words)) :
       \A j \in 1..Len(words) : w[i + j] = words[j]

(* ------------------------------ the config ----------------------------- *)

\* config.generateOnly: absent, or the list given
Absent == [defined |-> FALSE, items |-> <<>>]

Given(items) == [defined |-> TRUE, items |-> items]

Config(go, asTypes, const, noExp) ==
  [generateOnly |-> go, enumsAsTypes |-> asTypes, constEnums |-> const,
   noExport |-> noExp]

DefaultConfig == Config(Absent, FALSE, FALSE, FALSE)

GenerateOnlyValues ==
  {Absent, Given(<<"enums">>), Given(<<"types">>), Given(<<"enums", "x">>),
   Given(<<"x", "enums">>), Given(<<>>)}

AllConfigs ==
  {Config(go, a, c, n) : go \in GenerateOnlyValues, a \in BOOLEAN, c \in BOOLEAN,
                         n \in BOOLEAN}

(* ------------------- the visitors (TsVisitor and its subclass) --------- *)

ExportWords(config) == IF config.noExport THEN <<>> ELSE <<"export">>

EnumKeyword(config) ==
  IF config.enumsAsTypes THEN <<"type">>
  ELSE IF config.constEnums THEN <<"const", "enum">>
  ELSE <<"enum">>

\* what the visitor leaves for one type definition node: '' for a scalar
\* (scalars go to the Scalars block), one declaration for any other kind
EmitType(td, config) ==
  IF td.kind = "Scalar" THEN <<>>
  ELSE << Decl(td.kind, td.name,
               ExportWords(config)
                 \o (IF td.kind = "Enum" THEN EnumKeyword(config) ELSE <<"type">>)
                 \o <<td.name>>,
               td.fields) >>

\* visit(parse(printSchema(schema)), { leave: visitor }).definitions
VisitSchema(schema, config) ==
  [i \in 1..Len(schema) |-> EmitType(schema[i], config)]

CustomScalars(schema) ==
  LET names == [i \in 1..Len(schema) |-> schema[i].name]
  IN SelectSeq(names, LAMBDA n : DefinedType(schema, n).kind = "Scalar")

\* visitor.scalarsDefinition: one block naming every scalar of the schema
ScalarsDefinition(schema, config) ==
  << Decl("Scalars", "Scalars", ExportWords(config) \o <<"type", "Scalars">>,
          SpecifiedScalars \o CustomScalars(schema)) >>

\* visitor.getMaybeValue()
MaybeValue(config) ==
  << Decl("Maybe", "Maybe", ExportWords(config) \o <<"type", "Maybe">>, <<>>) >>

\* TsIntrospectionVisitor over the printed introspection schema: a type whose
\* name is in typesToInclude is emitted, any other node is removed
VisitIntrospection(config, included) ==
  LET kept == SelectSeq(IntrospectionTypes, LAMBDA n : n \in Range(included))
  IN [i \in 1..Len(kept) |->
        EmitType(TypeDef(kept[i], IntrospectionKind(kept[i]),
                         IntrospectionFields(kept[i])), config)]

(* ------------------------------ the inputs ----------------------------- *)

\* A document is the sequence of its Field nodes in visiting order, each
\* given by getNamedType(typeInfo.getType()).
DocContents ==
  { <<>>,
    <<"String", NoType>>,
    <<"__Type", "String">>,
    <<"__Schema", "__Type", "String">>,
    <<"__EnumValue", "__EnumValue">>,
    <<"__Directive", "__TypeKind">> }

AllDocuments == SeqsUpTo(DocContents, MaxDocs)

Input(s, d, c) == [schema |-> s, documents |-> d, config |-> c]

NoInput == Input(<<>>, <<>>, DefaultConfig)

PluginInputs ==
  {Input(SchemaBlog, d, DefaultConfig) : d \in AllDocuments}
    \cup {Input(s, d, c) : s \in Schemas,
                           d \in {<<>>, << <<"__Type", "String">> >>},
                           c \in AllConfigs}

ConcurrentInputs ==
  {Input(SchemaPing, d, DefaultConfig) :
     d \in {<<>>, << <<"__EnumValue", "__EnumValue">> >>,
            << <<"String", NoType>>, <<"__Directive", "__TypeKind">> >>}}
    \cup {Input(SchemaPing, <<>>, Config(Given(<<"enums">>), FALSE, FALSE, FALSE))}

(* ------------------------------ plugin --------------------------------- *)

Calls == {1, 2}

NoResult == [outcome |-> "none", prepend |-> <<>>, content |-> <<>>]

Returned(prepend, content) ==
  [outcome |-> "returned", prepend |-> prepend, content |-> content]

\* const usedTypes: GraphQLNamedType[] = []
FreshUsedTypesStale(old) == old

FreshUsedTypes(old) == <<>>

\* const typesToInclude: GraphQLNamedType[] = []
FreshTypesToIncludeStale(old) == old

FreshTypesToInclude(old) == <<>>

\* the call of plugin: its locals are allocated
Start(c, in) ==
  /\ pc[c] \in {"idle", "done"}
  /\ pc' = [pc EXCEPT ![c] = "visit"]
  /\ input' = [input EXCEPT ![c] = in]
  /\ visitorResult' = [visitorResult EXCEPT ![c] = <<>>]
  /\ todo' = [todo EXCEPT ![c] = <<>>]
  /\ usedTypes' = [usedTypes EXCEPT ![c] = FreshUsedTypes(@)]
  /\ typesToInclude' = [typesToInclude EXCEPT ![c] = FreshTypesToInclude(@)]
  /\ stack' = [stack EXCEPT ![c] = <<>>]
  /\ introspectionDefinitions' = [introspectionDefinitions EXCEPT ![c] = <<>>]
  /\ result' = [result EXCEPT ![c] = NoResult]
  /\ UNCHANGED mapperVars

\* the schema visit; then includeIntrospectionDefinitions is entered
Visit(c) ==
  /\ pc[c] = "visit"
  /\ visitorResult' =
       [visitorResult EXCEPT ![c] = VisitSchema(input[c].schema, input[c].config)]
  /\ todo' = [todo EXCEPT ![c] = input[c].documents]
  /\ pc' = [pc EXCEPT ![c] = "scan"]
  /\ UNCHANGED <<input, usedTypes, typesToInclude, stack, introspectionDefinitions,
                 result, mapperVars>>

RECURSIVE DropEmpty(_)
\* list without its leading empty sequences
DropEmpty(list) ==
  IF list # <<>> /\ Head(list) = <<>> THEN DropEmpty(Tail(list)) ELSE list

\* the Field callback of documentsVisitor
FieldIsUsed(used, type) == isIntrospectionType(type) /\ type \notin Range(used)

\* one Field node of the documents is visited
ScanField(c) ==
  /\ pc[c] = "scan"
  /\ DropEmpty(todo[c]) # <<>>
  /\ LET docs == DropEmpty(todo[c])
         type == Head(Head(docs))
     IN /\ usedTypes' = [usedTypes EXCEPT ![c] =
                           IF FieldIsUsed(@, type) THEN Append(@, type) ELSE @]
        /\ todo' = [todo EXCEPT ![c] = <<Tail(Head(docs))>> \o Tail(docs)]
  /\ UNCHANGED <<pc, input, visitorResult, typesToInclude, stack,
                 introspectionDefinitions, result, mapperVars>>

\* every document is visited: usedTypes.forEach(collectTypes) begins
ScanDone(c) ==
  /\ pc[c] = "scan"
  /\ DropEmpty(todo[c]) = <<>>
  /\ todo' = [todo EXCEPT ![c] = <<>>]
  /\ stack' = [stack EXCEPT ![c] = <<usedTypes[c]>>]
  /\ pc' = [pc EXCEPT ![c] = "collect"]
  /\ UNCHANGED <<input, visitorResult, usedTypes, typesToInclude,
                 introspectionDefinitions, result, mapperVars>>

RECURSIVE Unwind(_)
\* the call stack after every forEach that has no element left has returned
Unwind(st) ==
  IF st # <<>> /\ st[Len(st)] = <<>> THEN Unwind(SubSeq(st, 1, Len(st) - 1)) ELSE st

\* typesToInclude.includes(type)
AlreadyIncludedIntrospectionOnly(included, type) ==
  isIntrospectionType(type) /\ type \in Range(included)

AlreadyIncluded(included, type) == type \in Range(included)

\* the calls collectTypes(type) goes on to make, in order
ChildrenFirstFieldOnly(schema, type) ==
  IF isObjectType(schema, type) /\ FieldTypes(schema, type) # <<>>
  THEN <<Head(FieldTypes(schema, type))>> ELSE <<>>

Children(schema, type) ==
  IF isObjectType(schema, type) THEN FieldTypes(schema, type) ELSE <<>>

\* typesToInclude.push(type) in call c
PushTypeShared(acc, c, type) == [d \in DOMAIN acc |-> Append(acc[d], type)]

PushType(acc, c, type) == [acc EXCEPT ![c] = Append(@, type)]

\* one call of collectTypes is entered, up to its first nested call
CollectTypes(c) ==
  /\ pc[c] = "collect"
  /\ Unwind(stack[c]) # <<>>
  /\ LET st == Unwind(stack[c])
         n == Len(st)
         type == Head(st[n])
         rest == [st EXCEPT ![n] = Tail(@)]
     IN IF AlreadyIncluded(typesToInclude[c], type)
        THEN /\ stack' = [stack EXCEPT ![c] = rest]
             /\ UNCHANGED typesToInclude
        ELSE /\ typesToInclude' = PushType(typesToInclude, c, type)
             /\ stack' = [stack EXCEPT ![c] =
                            Append(rest, Children(input[c].schema, type))]
  /\ UNCHANGED <<pc, input, visitorResult, todo, usedTypes,
                 introspectionDefinitions, result, mapperVars>>

\* collection is over: the introspection schema is visited and
\* includeIntrospectionDefinitions returns
Render(c) ==
  /\ pc[c] = "collect"
  /\ Unwind(stack[c]) = <<>>
  /\ stack' = [stack EXCEPT ![c] = <<>>]
  /\ introspectionDefinitions' =
       [introspectionDefinitions EXCEPT ![c] =
          VisitIntrospection(input[c].config, typesToInclude[c])]
  /\ pc' = [pc EXCEPT ![c] = "return"]
  /\ UNCHANGED <<input, visitorResult, todo, usedTypes, typesToInclude, result,
                 mapperVars>>

\* config.generateOnly && config.generateOnly.length > 0
\*   && config.generateOnly[0] === 'enums'
GenerateOnlyEnumsAnywhere(config) ==
  config.generateOnly.defined /\ "enums" \in Range(config.generateOnly.items)

GenerateOnlyEnums(config) ==
  /\ config.generateOnly.defined
  /\ Len(config.generateOnly.items) > 0
  /\ config.generateOnly.items[1] = "enums"

\* visitorResult.definitions.filter(d => d.includes('export enum'))
ExportEnums(definitions) ==
  SelectSeq(definitions, LAMBDA d : StringIncludes(d, <<"export", "enum">>))

\* [ExportEnums(definitions)].join('\n'): the one element is an array
EnumsContent(definitions) == Join(<<ArrayToString(ExportEnums(definitions))>>, "\n")

\* [scalars, ...visitorResult.definitions, ...introspectionDefinitions].join('\n')
NormalContentNoScalars(scalars, definitions, introspection) ==
  Join(definitions \o introspection, "\n")

NormalContent(scalars, definitions, introspection) ==
  Join(<<scalars>> \o definitions \o introspection, "\n")

\* the two return statements of plugin
Return(c) ==
  /\ pc[c] = "return"
  /\ result' = [result EXCEPT ![c] =
       IF GenerateOnlyEnums(input[c].config)
       THEN Returned(<<>>, EnumsContent(visitorResult[c]))
       ELSE Returned(<<MaybeValue(input[c].config)>>,
                     NormalContent(ScalarsDefinition(input[c].schema, input[c].config),
                                   visitorResult[c], introspectionDefinitions[c]))]
  /\ pc' = [pc EXCEPT ![c] = "done"]
  /\ UNCHANGED <<input, visitorResult, todo, usedTypes, typesToInclude, stack,
                 introspectionDefinitions, mapperVars>>

Step(c) ==
  \/ Visit(c)
  \/ ScanField(c)
  \/ ScanDone(c)
  \/ CollectTypes(c)
  \/ Render(c)
  \/ Return(c)

(* ------------------- mapper resolution (resolvers plugin) -------------- *)

\* An external reference is the list of its parts: <<"./types", "#", "UserParent">>
\* for './types#UserParent', <<"any">> for 'any'.
MapperValues == { <<"./m", "#", "MA">>, <<"./types", "#", "UserParent">>, <<"any">> }

DefaultMapperValues == { <<>>, <<"any">>, <<"./d", "#", "Fallback">> }

MappedTypeNames == {"A", "User"}

ReferencedTypeNames == {"A", "User", "Profile"}

\* mappers: at most one entry per type name
MapperConfigs ==
  {[mappers |-> m, defaultMapper |-> d] :
     m \in UNION {[S -> MapperValues] : S \in SUBSET MappedTypeNames},
     d \in DefaultMapperValues}

\* 'modulePath#symbolName' names symbolName; anything else names itself
ParseMapper(ref) ==
  IF \E i \in 1..Len(ref) : ref[i] = "#"
  THEN LET i == CHOOSE k \in 1..Len(ref) : ref[k] = "#"
       IN [isExternal |-> TRUE, source |-> SubSeq(ref, 1, i - 1),
           type |-> SubSeq(ref, i + 1, Len(ref))]
  ELSE [isExternal |-> FALSE, source |-> <<>>, type |-> ref]

\* the type a reference to GraphQL type name is rendered as
ResolveMapperDefaultFirst(config, name) ==
  IF config.defaultMapper # <<>> THEN ParseMapper(config.defaultMapper).type
  ELSE IF name \in DOMAIN config.mappers THEN ParseMapper(config.mappers[name]).type
  ELSE <<name>>

ResolveMapper(config, name) ==
  IF name \in DOMAIN config.mappers THEN ParseMapper(config.mappers[name]).type
  ELSE IF config.defaultMapper # <<>> THEN ParseMapper(config.defaultMapper).type
  ELSE <<name>>

\* one reference of a resolver signature is rendered, in Parent or in Result
\* position
RenderReference(name, position) ==
  /\ Len(resolved) < MaxRefs
  /\ resolved' = Append(resolved, [name |-> name, position |-> position,
                                   rendered |-> ResolveMapper(mapperConfig, name)])
  /\ UNCHANGED <<mapperConfig, pluginVars>>

NoMapperConfig == [mappers |-> <<>>, defaultMapper |-> <<>>]

Init ==
  /\ pc = [c \in Calls |-> "idle"]
  /\ input = [c \in Calls |-> NoInput]
  /\ visitorResult = [c \in Calls |-> <<>>]
  /\ todo = [c \in Calls |-> <<>>]
  /\ usedTypes = [c \in Calls |-> <<>>]
  /\ typesToInclude = [c \in Calls |-> <<>>]
  /\ stack = [c \in Calls |-> <<>>]
  /\ introspectionDefinitions = [c \in Calls |-> <<>>]
  /\ result = [c \in Calls |-> NoResult]
  /\ mapperConfig = NoMapperConfig
  /\ resolved = <<>>

\* one caller: invocations follow one another
Next ==
  \/ \E in \in PluginInputs : Start(1, in)
  \/ Step(1)

Spec == Init /\ [][Next]_vars

\* a synchronous call, once made, runs to its return
LiveSpec == Spec /\ WF_vars(Step(1))

\* two callers whose invocations overlap
ConcurrentNext ==
  \E c \in Calls :
    \/ \E in \in ConcurrentInputs : Start(c, in)
    \/ Step(c)

ConcurrentSpec == Init /\ [][ConcurrentNext]_vars

MapperInit ==
  /\ pc = [c \in Calls |-> "idle"]
  /\ input = [c \in Calls |-> NoInput]
  /\ visitorResult = [c \in Calls |-> <<>>]
  /\ todo = [c \in Calls |-> <<>>]
  /\ usedTypes = [c \in Calls |-> <<>>]
  /\ typesToInclude = [c \in Calls |-> <<>>]
  /\ stack = [c \in Calls |-> <<>>]
  /\ introspectionDefinitions = [c \in Calls |-> <<>>]
  /\ result = [c \in Calls |-> NoResult]
  /\ mapperConfig \in MapperConfigs
  /\ resolved = <<>>

MapperNext ==
  \E name \in ReferencedTypeNames, position \in {"Parent", "Result"} :
    RenderReference(name, position)

MapperSpec == MapperInit /\ [][MapperNext]_vars

(* ------------------------ the sequential result ------------------------ *)

RECURSIVE CollectEach(_, _, _)
\* list.forEach(collectTypes) run to its end on accumulator acc
CollectEach(schema, acc, list) ==
  IF list = <<>> THEN acc
  ELSE LET type == Head(list)
           after == IF AlreadyIncluded(acc, type) THEN acc
                    ELSE CollectEach(schema, Append(acc, type), Children(schema, type))
       IN CollectEach(schema, after, Tail(list))

RECURSIVE UsedTypesOf(_, _)
\* usedTypes after the Field nodes of fields were visited from used
UsedTypesOf(used, fields) ==
  IF fields = <<>> THEN used
  ELSE UsedTypesOf(IF FieldIsUsed(used, Head(fields)) THEN Append(used, Head(fields))
                   ELSE used, Tail(fields))

\* what plugin(in) returns when nothing else runs
RunAlone(in) ==
  LET definitions == VisitSchema(in.schema, in.config)
      used == UsedTypesOf(<<>>, Concat(in.documents))
      included == CollectEach(in.schema, <<>>, used)
      introspection == VisitIntrospection(in.config, included)
  IN IF GenerateOnlyEnums(in.config)
     THEN Returned(<<>>, EnumsContent(definitions))
     ELSE Returned(<<MaybeValue(in.config)>>,
                   NormalContent(ScalarsDefinition(in.schema, in.config),
                                 definitions, introspection))

(* ------------------------------ properties ----------------------------- *)

\* the named types of the Field nodes of the documents
SelectedTypes(documents) == Range(Concat(documents))

RECURSIVE LeastClosed(_, _)
\* the least set that contains S and, with an Object type, the named type of
\* each of its fields
LeastClosed(schema, S) ==
  LET more == S \cup UNION {Range(FieldTypes(schema, t)) :
                              t \in {x \in S : KindOf(schema, x) = "Object"}}
  IN IF more = S THEN S ELSE LeastClosed(schema, more)

Reachable(in) ==
  LeastClosed(in.schema,
              {t \in SelectedTypes(in.documents) : t \in Range(IntrospectionTypes)})

Collected(c) == pc[c] \in {"return", "done"}

\* the number of declarations of type t in a string: a declaration of that
\* name, or an entry of the Scalars block
Occurrences(str, t) ==
  LET n(a) == IF a.kind = "Scalars" THEN SelectSeqIdx(a.members, t)
              ELSE IF a.kind \in {"Sep", "Maybe"} THEN 0
              ELSE IF a.name = t THEN 1 ELSE 0
      RECURSIVE sum(_)
      sum(rest) == IF rest = <<>> THEN 0 ELSE n(Head(rest)) + sum(Tail(rest))
  IN sum(str)

Declarations(str) == {str[i] : i \in {j \in 1..Len(str) : str[j].kind # "Sep"}}

\* C1: once collection is over, typesToInclude holds exactly the least set
\* that contains the introspection types selected in the documents and is
\* closed under the field types of its Object types.
C1_ExactClosure ==
  \A c \in Calls : Collected(c) => Range(typesToInclude[c]) = Reachable(input[c])

\* a document selecting __Type: enums and scalars are in, __Schema is not
C1_Witness ==
  /\ pc[1] = "done"
  /\ usedTypes[1] = <<"__Type">>
  /\ {"__TypeKind", "String", "__InputValue"} \subseteq Range(typesToInclude[1])
  /\ "__Schema" \notin Range(typesToInclude[1])

\* C2: with generateOnly ['enums'] the content declares every enum of the
\* schema once and nothing else, whatever enumsAsTypes, constEnums and
\* noExport are.
C2_OnlyEnums ==
  \A c \in Calls :
    (pc[c] = "done" /\ input[c].config.generateOnly = Given(<<"enums">>)) =>
      /\ \A t \in DefinedNames(input[c].schema) :
           KindOf(input[c].schema, t) = "Enum" => Occurrences(result[c].content, t) = 1
      /\ \A a \in Declarations(result[c].content) : a.kind = "Enum"

InvalidGenerateOnly(config) ==
  config.generateOnly.defined /\ config.generateOnly.items # <<"enums">>

\* C3 as stated: an invalid generateOnly value ends plugin in a
\* ConfigurationError and no output.
C3_InvalidRejected ==
  \A c \in Calls :
    (pc[c] = "done" /\ InvalidGenerateOnly(input[c].config)) =>
      /\ result[c].outcome = "ConfigurationError"
      /\ result[c].content = <<>>

\* C3 as amended: an invalid generateOnly value is not rejected.  plugin
\* returns; the output is the enums-only one (no prepend, export enum
\* declarations only) when the first element is 'enums', and the full one
\* (Maybe prepended, Scalars block first, every defined type) otherwise.
C3_InvalidAccepted ==
  \A c \in Calls :
    (pc[c] = "done" /\ InvalidGenerateOnly(input[c].config)) =>
      /\ result[c].outcome = "returned"
      /\ LET items == input[c].config.generateOnly.items
             content == result[c].content
         IN IF items # <<>> /\ items[1] = "enums"
            THEN /\ result[c].prepend = <<>>
                 /\ \A a \in Declarations(content) :
                      StringIncludes(<<a>>, <<"export", "enum">>)
            ELSE /\ result[c].prepend = <<MaybeValue(input[c].config)>>
                 /\ content # <<>> /\ content[1].kind = "Scalars"
                 /\ \A t \in DefinedNames(input[c].schema) :
                      Occurrences(content, t) = 1

\* ['x', 'enums'] was given and the full output returned
C3_Witness ==
  /\ pc[1] = "done"
  /\ input[1].config.generateOnly = Given(<<"x", "enums">>)
  /\ input[1].schema = SchemaBlog
  /\ result[1].outcome = "returned"
  /\ Occurrences(result[1].content, "User") = 1

\* the declarations plugin emits, in order
Emitted(c) ==
  IF GenerateOnlyEnums(input[c].config) THEN ExportEnums(visitorResult[c])
  ELSE <<ScalarsDefinition(input[c].schema, input[c].config)>>
         \o visitorResult[c] \o introspectionDefinitions[c]

\* C4: on both return paths content is the emitted declarations with a
\* newline between every two.
C4_NewlineJoined ==
  \A c \in Calls : pc[c] = "done" => result[c].content = Join(Emitted(c), "\n")

\* C5: typesToInclude never holds a type twice, and collection, once begun,
\* comes to its end.
C5_TerminatesNoDuplicates ==
  /\ [](\A c \in Calls : NoDuplicates(typesToInclude[c]))
  /\ (pc[1] = "collect") ~> (pc[1] = "return")

\* collection over a cycle (__Type, __Field, __InputValue) from two used types
C5_Witness ==
  /\ pc[1] = "return"
  /\ Len(usedTypes[1]) >= 2
  /\ {"__Type", "__Field", "__InputValue"} \subseteq Range(typesToInclude[1])

NormalPath(c) == pc[c] = "done" /\ ~input[c].config.generateOnly.defined

\* C6 as stated: without generateOnly every type of the type map is declared
\* exactly once in content.
C6_EveryTypeOnce ==
  \A c \in Calls :
    NormalPath(c) =>
      \A t \in TypeMap(input[c].schema) : Occurrences(result[c].content, t) = 1

\* C6 as amended: without generateOnly every type of the type map that is not
\* an introspection type is declared exactly once in content; an
\* introspection type is declared exactly once when it is reachable from the
\* documents, and not at all otherwise.
C6_DefinedTypesOnce ==
  \A c \in Calls :
    NormalPath(c) =>
      \A t \in TypeMap(input[c].schema) :
        Occurrences(result[c].content, t) =
          (IF isIntrospectionType(t) /\ t \notin Reachable(input[c]) THEN 0 ELSE 1)

\* all six kinds declared, some introspection types in, some out
C6_Witness ==
  /\ NormalPath(1)
  /\ input[1].schema = SchemaBlog
  /\ Occurrences(result[1].content, "__EnumValue") = 1
  /\ Occurrences(result[1].content, "__Schema") = 0
  /\ Occurrences(result[1].content, "Date") = 1

\* C7: two invocations on the same triple return the same prepend and the
\* same content, whatever either caller ran before.
C7_Deterministic ==
  \A c, d \in Calls :
    (pc[c] = "done" /\ pc[d] = "done" /\ input[c] = input[d]) => result[c] = result[d]

\* both callers have returned from the same triple, one that uses
\* introspection types
C7_Witness ==
  /\ pc[1] = "done" /\ pc[2] = "done"
  /\ input[1] = input[2]
  /\ usedTypes[1] # <<>>
  /\ result[1].content # <<>>

NoIntrospectionSelected(documents) ==
  \A t \in SelectedTypes(documents) : ~isIntrospectionType(t)

\* C8: when no selected field has an introspection type,
\* includeIntrospectionDefinitions returns the empty list and the content of
\* the normal path declares no introspection type.
C8_NothingIncluded ==
  \A c \in Calls :
    (Collected(c) /\ NoIntrospectionSelected(input[c].documents)) =>
      /\ introspectionDefinitions[c] = <<>>
      /\ (pc[c] = "done" /\ ~GenerateOnlyEnums(input[c].config)) =>
           \A a \in Declarations(result[c].content) : ~isIntrospectionType(a.name)

\* documents with fields, none of an introspection type, on the normal path
C8_Witness ==
  /\ pc[1] = "done"
  /\ input[1].documents = << <<"String", NoType>>, <<>> >>
  /\ ~GenerateOnlyEnums(input[1].config)
  /\ result[1].content # <<>>

\* C9: a reference to a type, as Parent or as Result, is rendered as the
\* symbol of its entry in mappers; without an entry, as defaultMapper when
\* there is one; otherwise as the type's own name.
C9_MapperPrecedence ==
  \A i \in 1..Len(resolved) :
    LET r == resolved[i]
        m == mapperConfig.mappers
        d == mapperConfig.defaultMapper
    IN /\ (r.name \in DOMAIN m /\ m[r.name] = <<"./m", "#", "MA">>) =>
            r.rendered = <<"MA">>
       /\ (r.name \in DOMAIN m /\ m[r.name] = <<"./types", "#", "UserParent">>) =>
            r.rendered = <<"UserParent">>
       /\ (r.name \in DOMAIN m /\ m[r.name] = <<"any">>) => r.rendered = <<"any">>
       /\ (r.name \notin DOMAIN m /\ d = <<"any">>) => r.rendered = <<"any">>
       /\ (r.name \notin DOMAIN m /\ d = <<"./d", "#", "Fallback">>) =>
            r.rendered = <<"Fallback">>
       /\ (r.name \notin DOMAIN m /\ d = <<>>) => r.rendered = <<r.name>>

\* mappers {A: './m#MA'} with defaultMapper 'any': A is MA as Parent, User is
\* any as Result
C9_Witness ==
  /\ mapperConfig = [mappers |-> [n \in {"A"} |-> <<"./m", "#", "MA">>],
                     defaultMapper |-> <<"any">>]
  /\ Len(resolved) = 2
  /\ resolved[1] = [name |-> "A", position |-> "Parent", rendered |-> <<"MA">>]
  /\ resolved[2] = [name |-> "User", position |-> "Result", rendered |-> <<"any">>]

\* C10: whatever the interleaving of two invocations, each returns what it
\* returns when run alone.
C10_IsolatedCalls ==
  \A c \in Calls : pc[c] = "done" => result[c] = RunAlone(input[c])

\* one caller has returned introspection declarations while the other is in
\* the middle of collecting its own
C10_Witness ==
  /\ pc[1] = "done"
  /\ introspectionDefinitions[1] # <<>>
  /\ pc[2] = "collect"
  /\ typesToInclude[2] # <<>>
  /\ typesToInclude[2] # typesToInclude[1]
  /\ stack[2] # <<>>

====
